---- MODULE Spec2Model ----
(***************************************************************************)
(* A model of src/core.py, the habitica command-line client.               *)
(*                                                                         *)
(* The module only compiles under Python 3 (a method named print at line   *)
(* 221), so library calls have their Python 3 meaning: a set of ints has   *)
(* no defined iteration order, dict.values() is a view that cannot be      *)
(* subscripted, and a ConfigParser writes str and so cannot write to a     *)
(* file opened 'wb'.                                                       *)
(*                                                                         *)
(* Three specifications share the variables:                               *)
(*   ParserSpec  get_task_ids applied to bounded command-line tokens       *)
(*   Spec        one run of a task command (habits, hb, dailies, dl, todos)*)
(*   QuestSpec   successive runs of the status command over the cache file *)
(***************************************************************************)
EXTENDS Integers, Sequences, FiniteSets, TLC

----------------------------------------------------------------------------
\* Bounds of the model.

\* ParserSpec: characters on the command line after the sub-command.
MaxArgLen == 5
\* Largest number of ids one expression may gather (bounds the set orders).
MaxIds == 4

----------------------------------------------------------------------------
\* Strings are sequences of one-character strings.

DigitChars == <<"0", "1", "2", "3", "4", "5", "6", "7", "8", "9">>

DigitSet == {DigitChars[k] : k \in 1..10}

\* Characters a token is built from: digits, the two separators of the
\* expression language, and a letter standing for any non-numeric character.
ArgChars == {"0", "1", "2", "3", "8", ",", "-", "a"}

\* The characters the command runs of Spec draw their expressions from.
CmdChars == {"0", "1", "2", "3", ",", "-", "a"}

Chars(s) == {s[k] : k \in 1..Len(s)}

StringsUpTo(n, alphabet) == UNION {[1..k -> alphabet] : k \in 0..n}

\* str.split(sep): the pieces between separators, empty pieces kept.
RECURSIVE split(_, _)
split(s, sep) ==
    IF sep \notin Chars(s)
    THEN <<s>>
    ELSE LET k == CHOOSE i \in 1..Len(s) :
                      s[i] = sep /\ \A j \in 1..(i - 1) : s[j] # sep
         IN  <<SubSeq(s, 1, k - 1)>> \o split(SubSeq(s, k + 1, Len(s)), sep)

\* The <args> list docopt builds from the command line: the words between
\* blanks.
argv(line) == SelectSeq(split(line, " "), LAMBDA w : Len(w) > 0)

\* int(s) raises ValueError unless s is a non-empty run of decimal digits
\* (sign, blanks and underscores are outside ArgChars).
int_ok(s) == Len(s) > 0 /\ Chars(s) \subseteq DigitSet

DigitVal(c) == (CHOOSE k \in 1..10 : DigitChars[k] = c) - 1

RECURSIVE int(_)
int(s) ==
    IF Len(s) = 0
    THEN 0
    ELSE int(SubSeq(s, 1, Len(s) - 1)) * 10 + DigitVal(s[Len(s)])

\* list(range(start, stop)): empty when stop <= start.
range(start, stop) ==
    IF stop <= start THEN <<>> ELSE [k \in 1..(stop - start) |-> start + k - 1]

----------------------------------------------------------------------------
\* get_task_ids, src/core.py 121-142.

ValueError == [err |-> TRUE, ids |-> <<>>]

Gathered(ids) == [err |-> FALSE, ids |-> ids]

\* Lines 134-138: what one comma-separated bit adds to task_ids.
bit_ids_off_by_one(bit) ==
    IF "-" \in Chars(bit)
    THEN LET parts == split(bit, "-")
         IN  IF (\E k \in 1..Len(parts) : ~int_ok(parts[k])) \/ Len(parts) # 2
             THEN ValueError
             ELSE Gathered(range(int(parts[1]), int(parts[2])))
    ELSE IF int_ok(bit) THEN Gathered(<<int(bit)>>) ELSE ValueError

bit_ids(bit) ==
    IF "-" \in Chars(bit)
    THEN LET parts == split(bit, "-")
         IN  IF (\E k \in 1..Len(parts) : ~int_ok(parts[k])) \/ Len(parts) # 2
             THEN ValueError
             ELSE Gathered(range(int(parts[1]), int(parts[2]) + 1))
    ELSE IF int_ok(bit) THEN Gathered(<<int(bit)>>) ELSE ValueError

\* Lines 132-138: the two loops; the first ValueError ends the call.
RECURSIVE gather_bits(_)
gather_bits(bits) ==
    IF Len(bits) = 0
    THEN Gathered(<<>>)
    ELSE LET first == bit_ids(Head(bits))
             rest == gather_bits(Tail(bits))
         IN  IF first.err \/ rest.err
             THEN ValueError
             ELSE Gathered(first.ids \o rest.ids)

RECURSIVE gather(_)
gather(raw_args) ==
    IF Len(raw_args) = 0
    THEN Gathered(<<>>)
    ELSE LET first == gather_bits(split(Head(raw_args), ","))
             rest == gather(Tail(raw_args))
         IN  IF first.err \/ rest.err
             THEN ValueError
             ELSE Gathered(first.ids \o rest.ids)

\* The orders in which iterating set(task_ids) may yield its elements: the
\* language defines none.
set_orders(s) ==
    {f \in [1..Cardinality(s) -> s] :
        \A i, j \in 1..Cardinality(s) : i # j => f[i] # f[j]}

minus_one(ids) == [k \in 1..Len(ids) |-> ids[k] - 1]

\* Lines 139-142: the results the call may return once task_ids is gathered.
returned(g, unique_and_sort) ==
    IF g.err
    THEN {ValueError}
    ELSE IF unique_and_sort
         THEN {Gathered(minus_one(o)) : o \in set_orders(Chars(g.ids))}
         ELSE {Gathered(minus_one(g.ids))}

get_task_ids(tids, unique_and_sort) == returned(gather(tids), unique_and_sort)

\* The token lists of at most n command-line characters over an alphabet
\* whose expansion stays within MaxIds.
ArgLists(n, alphabet) ==
    {a \in {argv(line) : line \in StringsUpTo(n, alphabet \cup {" "})} :
        Len(gather(a).ids) <= MaxIds}

----------------------------------------------------------------------------
\* The expression language as the specification words it, written without
\* the parser's own operators: pieces are cut at commas by position, numerals
\* are valued by positional weight.

IsNumeral(s) == Len(s) > 0 /\ \A k \in 1..Len(s) : s[k] \in DigitSet

RECURSIVE Pow10(_)
Pow10(n) == IF n = 0 THEN 1 ELSE 10 * Pow10(n - 1)

RECURSIVE WeightedSum(_, _)
WeightedSum(s, k) ==
    IF k > Len(s)
    THEN 0
    ELSE DigitVal(s[k]) * Pow10(Len(s) - k) + WeightedSum(s, k + 1)

Value(s) == WeightedSum(s, 1)

Count(s, c) == Cardinality({k \in 1..Len(s) : s[k] = c})

\* Position of the j-th occurrence of c in s; 0 for j = 0, Len(s) + 1 past
\* the last.
NthPos(s, c, j) ==
    IF j = 0
    THEN 0
    ELSE IF j > Count(s, c)
         THEN Len(s) + 1
         ELSE CHOOSE p \in 1..Len(s) :
                  s[p] = c /\ Cardinality({q \in 1..(p - 1) : s[q] = c}) = j - 1

CommaPieces(tok) ==
    [j \in 1..(Count(tok, ",") + 1) |->
        SubSeq(tok, NthPos(tok, ",", j - 1) + 1, NthPos(tok, ",", j) - 1)]

Left(bit) == SubSeq(bit, 1, NthPos(bit, "-", 1) - 1)

Right(bit) == SubSeq(bit, NthPos(bit, "-", 1) + 1, Len(bit))

IsLiteralPiece(bit) == IsNumeral(bit)

IsRangePiece(bit) ==
    /\ Count(bit, "-") = 1
    /\ IsNumeral(Left(bit))
    /\ IsNumeral(Right(bit))
    /\ Value(Left(bit)) <= Value(Right(bit))

WellFormedPiece(bit) == IsLiteralPiece(bit) \/ IsRangePiece(bit)

EmptyPiece(bit) == Len(bit) = 0

NonNumericPiece(bit) ==
    /\ Len(bit) > 0
    /\ \/ Count(bit, "-") = 0 /\ ~IsNumeral(bit)
       \/ Count(bit, "-") = 1 /\ (~IsNumeral(Left(bit)) \/ ~IsNumeral(Right(bit)))

ReversedRangePiece(bit) ==
    /\ Count(bit, "-") = 1
    /\ IsNumeral(Left(bit))
    /\ IsNumeral(Right(bit))
    /\ Value(Left(bit)) > Value(Right(bit))

MultiHyphenPiece(bit) == Count(bit, "-") > 1

MalformedPiece(bit) ==
    \/ EmptyPiece(bit)
    \/ NonNumericPiece(bit)
    \/ ReversedRangePiece(bit)
    \/ MultiHyphenPiece(bit)

WellFormed(tokens) ==
    \A t \in 1..Len(tokens) :
        \A j \in 1..(Count(tokens[t], ",") + 1) :
            WellFormedPiece(CommaPieces(tokens[t])[j])

Malformed(tokens) ==
    \E t \in 1..Len(tokens) :
        \E j \in 1..(Count(tokens[t], ",") + 1) :
            MalformedPiece(CommaPieces(tokens[t])[j])

\* A literal N names N-1; a range A-B names A-1, A, ..., B-1.
Expansion(bit) ==
    IF IsLiteralPiece(bit)
    THEN <<Value(bit) - 1>>
    ELSE [k \in 1..(Value(Right(bit)) - Value(Left(bit)) + 1) |->
             Value(Left(bit)) - 2 + k]

RECURSIVE ConcatExpansions(_, _)
ConcatExpansions(pieces, j) ==
    IF j > Len(pieces)
    THEN <<>>
    ELSE Expansion(pieces[j]) \o ConcatExpansions(pieces, j + 1)

RECURSIVE Expected(_, _)
Expected(tokens, t) ==
    IF t > Len(tokens)
    THEN <<>>
    ELSE ConcatExpansions(CommaPieces(tokens[t]), 1) \o Expected(tokens, t + 1)

StrictlyAscending(ids) == \A k \in 1..(Len(ids) - 1) : ids[k] < ids[k + 1]

----------------------------------------------------------------------------
VARIABLES
    p_pc,       \* ParserSpec: "call" before get_task_ids runs, "return" after
    p_tids,     \* its argument tids
    p_sort,     \* its argument unique_and_sort
    p_ret,      \* what it returned (err: it raised ValueError)
    pc,         \* Spec: where the command run stands
    command,    \* args['<command>']
    sub,        \* the sub-command word found in args['<args>']
    moveto,     \* move's moveto argument
    malformed,  \* whether the expression typed was malformed (not read by the code)
    fetched,    \* the task list as the remote returned it (not read by the code)
    tasks,      \* the local list: habits, dailies or todos
    tids,       \* the indices get_task_ids returned
    real_ids,   \* move's resolved task records
    idx,        \* position of the running for loop, from 1
    remote,     \* the remote list of the command's task type, as ids in order
    events,     \* requests, responses and sleeps of the run, in order
    err,        \* the exception that ended the run, "" if none
    printed,    \* the lines the run's print calls have written, in order
    q_pc,       \* QuestSpec: where the status run stands ("idle": no run)
    cache_file, \* the [Quest] section of CACHE_CONF on disk
    live,       \* the remote party and its quest
    cache,      \* the run's ConfigParser, as load_cache built it
    quest_key,  \* the run's quest_key, line 398
    found,      \* the run's qt, quest_max and quest_title, lines 404-423
    quest,      \* the run's quest string, lines 387 and 440, as the sequence
                \* of its parts
    q_err,      \* the exception that ended the run, "" if none
    content_fetches, \* hbt.content() calls since the live quest last changed
                     \* (not read by the code)
    written,    \* the kwargs of the last update_quest_cache call, if any
                \* (not read by the code)
    s_pc,       \* ScoreSpec: "call" before the scoring function runs, "return" after
    s_x,        \* a habit value
    s_y,        \* a second habit value
    s_rx,       \* the score returned for s_x
    s_ry        \* the score returned for s_y

parserVars == <<p_pc, p_tids, p_sort, p_ret>>

cmdVars ==
    <<pc, command, sub, moveto, malformed, fetched, tasks, tids, real_ids, idx,
      remote, events, err, printed>>

questVars ==
    <<q_pc, cache_file, live, cache, quest_key, found, quest, q_err,
      content_fetches, written>>

scoreVars == <<s_pc, s_x, s_y, s_rx, s_ry>>

vars == <<parserVars, cmdVars, questVars, scoreVars>>

notParserVars == <<cmdVars, questVars, scoreVars>>

notCmdVars == <<parserVars, questVars, scoreVars>>

notQuestVars == <<parserVars, cmdVars, scoreVars>>

notScoreVars == <<parserVars, cmdVars, questVars>>

----------------------------------------------------------------------------
\* ParserSpec: get_task_ids applied once to tokens drawn from the bounded set.

ParserIdle ==
    /\ p_pc = "off"
    /\ p_tids = <<>>
    /\ p_sort = FALSE
    /\ p_ret = Gathered(<<>>)

ParserInit ==
    /\ p_pc = "call"
    /\ p_tids \in ArgLists(MaxArgLen, ArgChars)
    /\ p_sort \in BOOLEAN
    /\ p_ret = Gathered(<<>>)

ParserCall ==
    /\ p_pc = "call"
    /\ \E r \in get_task_ids(p_tids, p_sort) : p_ret' = r
    /\ p_pc' = "return"
    /\ UNCHANGED <<p_tids, p_sort>>
    /\ UNCHANGED notParserVars

ParserNext == ParserCall

----------------------------------------------------------------------------
\* Spec: one run of a task command, src/core.py 328-337 and 471-593.

\* Bounds: tasks in the fetched list; command-line characters of the
\* expression.
MaxTasks == 3

MaxCmdArgLen == 5

\* time.sleep's argument, line 35, in tenths of a second.
HABITICA_REQUEST_WAIT_TIME == 5

TaskNames == <<"A", "B", "C", "D", "E", "F">>

BulkCommands ==
    {<<"habits", "up">>, <<"habits", "down">>, <<"dailies", "done">>,
     <<"dailies", "undo">>, <<"todos", "done">>, <<"todos", "delete">>}

MoveCommands == {"hb", "dl", "todos"} \X {"top", "tob", "to"}

ListCommands == {"habits", "hb", "dailies", "dl", "todos"} \X {""}

\* The type each command fetches (lines 472, 504, 520, 543, 555).
TaskType(c) ==
    IF c \in {"habits", "hb"}
    THEN "habits"
    ELSE IF c \in {"dailies", "dl"} THEN "dailys" ELSE "todos"

\* Python's list indexing: indices -len..len-1 select, others raise
\* IndexError.
index_ok(list, i) == -Len(list) <= i /\ i < Len(list)

position(list, i) == IF i >= 0 THEN i + 1 ELSE Len(list) + i + 1

getitem(list, i) == list[position(list, i)]

delitem(list, i) ==
    [k \in 1..(Len(list) - 1) |->
        IF k < position(list, i) THEN list[k] ELSE list[k + 1]]

\* sorted(tids, reverse=True), line 146.
RECURSIVE sorted_reverse(_)
sorted_reverse(ids) ==
    IF Len(ids) = 0
    THEN <<>>
    ELSE LET k == CHOOSE i \in 1..Len(ids) : \A j \in 1..Len(ids) : ids[j] <= ids[i]
         IN  <<ids[k]>> \o
             sorted_reverse([j \in 1..(Len(ids) - 1) |->
                                IF j < k THEN ids[j] ELSE ids[j + 1]])

\* Lines 146-147: del tasks[tid] for each tid of a descending list.
RECURSIVE del_each(_, _)
del_each(list, ids) ==
    IF Len(ids) = 0
    THEN [err |-> FALSE, list |-> list]
    ELSE IF ~index_ok(list, Head(ids))
         THEN [err |-> TRUE, list |-> list]
         ELSE del_each(delitem(list, Head(ids)), Tail(ids))

\* updated_task_list, lines 145-148.
updated_task_list_unsorted(list, ids) == del_each(list, ids)

updated_task_list(list, ids) == del_each(list, sorted_reverse(ids))

\* The records a fetch returns for the remote list.
Mirror(ids) ==
    [k \in 1..Len(ids) |-> [id |-> ids[k], value |-> 0, completed |-> FALSE]]

\* The entries of the run's event log.
Req(method, id, arg) ==
    [ev |-> "req", method |-> method, id |-> id, arg |-> arg, wait |-> 0]

Resp(outcome) ==
    [ev |-> "resp", method |-> "", id |-> "", arg |-> <<outcome>>, wait |-> 0]

Slept(t) == [ev |-> "sleep", method |-> "", id |-> "", arg |-> <<>>, wait |-> t]

\* A line a print call writes: its first word and the task whose text it
\* shows ("" for the lines of a printed list).
Line(word, id) == [word |-> word, id |-> id]

\* The word of the line a bulk loop prints after its call has returned:
\* lines 479, 489, 526, 535, 562, 581.
printed_word(s) ==
    CASE s = "up" -> "incremented"
      [] s = "down" -> "decremented"
      [] s \in {"done", "undo"} -> "marked"
      [] s = "delete" -> "deleted"

\* hbt.user.tasks(type=...): lines 472, 504, 520, 543, 555.
FetchReq(c) == Req("get", "", <<"type", TaskType(c)>>)

\* The mutating request each loop sends for one task: lines 336, 477, 487,
\* 524, 533, 560, 579.
request_for_always_top(s, id, mv) ==
    CASE s \in {"top", "tob", "to"} -> Req("post", id, <<"_moveto", "0">>)
      [] s = "up" -> Req("post", id, <<"_direction", "up">>)
      [] s = "down" -> Req("post", id, <<"_direction", "down">>)
      [] s = "done" -> Req("post", id, <<"_direction", "up">>)
      [] s = "undo" -> Req("put", id, <<"completed", "False">>)
      [] s = "delete" -> Req("delete", id, <<>>)

request_for(s, id, mv) ==
    CASE s \in {"top", "tob", "to"} -> Req("post", id, <<"_moveto", mv>>)
      [] s = "up" -> Req("post", id, <<"_direction", "up">>)
      [] s = "down" -> Req("post", id, <<"_direction", "down">>)
      [] s = "done" -> Req("post", id, <<"_direction", "up">>)
      [] s = "undo" -> Req("put", id, <<"completed", "False">>)
      [] s = "delete" -> Req("delete", id, <<>>)

\* moveto as the callers pass it: lines 509-513, 545-549, 587-591.
MoveTos(s) ==
    CASE s = "top" -> {"0"}
      [] s = "tob" -> {"-1"}
      [] s = "to" -> {DigitChars[k + 1] : k \in 0..MaxTasks}

\* Line 332: real_ids = [tasks[tid] for tid in tids].
resolve(list, ids) ==
    IF \E k \in 1..Len(ids) : ~index_ok(list, ids[k])
    THEN [err |-> TRUE, items |-> <<>>]
    ELSE [err |-> FALSE, items |-> [k \in 1..Len(ids) |-> getitem(list, ids[k])]]

\* The element a for loop visits at its idx-th pass: lines 333, 475, 485,
\* 523, 532, 559, 576.
loop_item_reversed(list, i) == list[Len(list) - i + 1]

loop_item(list, i) == list[i]

\* Line 337 (and 482, 492, 529, 538, 564, 583): sleep after the call.
after_call_no_sleep(log) == log

after_call(log) == Append(log, Slept(HABITICA_REQUEST_WAIT_TIME))

\* The local update after a returned call: lines 481, 491, 528, 537.
local_update(list, s, tid) ==
    LET t == getitem(list, tid)
        u == CASE s = "up" -> [t EXCEPT !.value = t.value + 1]
               [] s = "down" -> [t EXCEPT !.value = t.value - 1]
               [] s = "done" -> [t EXCEPT !.completed = TRUE]
               [] s = "undo" -> [t EXCEPT !.completed = FALSE]
               [] OTHER -> t
    IN  [list EXCEPT ![position(list, tid)] = u]

\* The remote list after a request has been served. "0" is the top, "-1" the
\* bottom, another position a 1-based slot; a completed or deleted to-do
\* leaves the list of open to-dos.
Without(list, id) == SelectSeq(list, LAMBDA x : x # id)

InsertAt(list, slot, id) ==
    [k \in 1..(Len(list) + 1) |->
        IF k < slot THEN list[k] ELSE IF k = slot THEN id ELSE list[k - 1]]

Slot(list, mv) ==
    IF DigitVal(mv) > Len(list) + 1 THEN Len(list) + 1 ELSE DigitVal(mv)

remote_apply(list, c, r) ==
    IF r.id \notin Chars(list)
    THEN list
    ELSE IF r.method = "delete" \/ (c = "todos" /\ r.arg = <<"_direction", "up">>)
         THEN Without(list, r.id)
         ELSE IF Len(r.arg) = 2 /\ r.arg[1] = "_moveto"
              THEN IF r.arg[2] = "0"
                   THEN <<r.id>> \o Without(list, r.id)
                   ELSE IF r.arg[2] = "-1"
                        THEN Without(list, r.id) \o <<r.id>>
                        ELSE InsertAt(Without(list, r.id),
                                      Slot(Without(list, r.id), r.arg[2]), r.id)
              ELSE list

\* The expressions a run may be given: at most MaxCmdArgLen command-line
\* characters, at most MaxIds ids gathered, each at most MaxTasks + 1.  Of
\* each, what the model reads: whether it is malformed, whether it is a
\* single token, and what lines 131-138 gather from it.
CmdArgs ==
    {p \in {[malformed |-> Malformed(a), single |-> Len(a) = 1, g |-> gather(a)] :
               a \in {argv(line) :
                         line \in StringsUpTo(MaxCmdArgLen, CmdChars \cup {" "})}} :
        /\ Len(p.g.ids) <= MaxIds
        /\ \A k \in 1..Len(p.g.ids) : p.g.ids[k] <= MaxTasks + 1}

ParseOutcomes(args, unique_and_sort) ==
    UNION {{[malformed |-> p.malformed, ret |-> r] :
               r \in returned(p.g, unique_and_sort)} : p \in args}

BulkParses == ParseOutcomes(CmdArgs, TRUE)

MoveParses == ParseOutcomes(CmdArgs, FALSE)

ToParses == ParseOutcomes({p \in CmdArgs : p.single}, FALSE)

CmdIdle ==
    /\ pc = "off"
    /\ command = ""
    /\ sub = ""
    /\ moveto = ""
    /\ malformed = FALSE
    /\ fetched = <<>>
    /\ tasks = <<>>
    /\ tids = <<>>
    /\ real_ids = <<>>
    /\ idx = 1
    /\ remote = <<>>
    /\ events = <<>>
    /\ err = ""
    /\ printed = <<>>

CmdInit ==
    /\ pc = "start"
    /\ command = ""
    /\ sub = ""
    /\ moveto = ""
    /\ malformed = FALSE
    /\ fetched = <<>>
    /\ tasks = <<>>
    /\ tids = <<>>
    /\ real_ids = <<>>
    /\ idx = 1
    /\ \E n \in 0..MaxTasks : remote = SubSeq(TaskNames, 1, n)
    /\ events = <<>>
    /\ err = ""
    /\ printed = <<>>

IsMove == sub \in {"top", "tob", "to"}

\* The list fetch raises: the run ends before anything is parsed.
FetchFails ==
    /\ pc = "start"
    /\ \E c \in BulkCommands \cup MoveCommands \cup ListCommands :
        /\ command' = c[1]
        /\ sub' = c[2]
        /\ events' = <<FetchReq(c[1]), Resp("error")>>
    /\ pc' = "crashed"
    /\ err' = "RemoteError"
    /\ UNCHANGED <<moveto, malformed, fetched, tasks, tids, real_ids, idx, remote,
                   printed>>
    /\ UNCHANGED notCmdVars

\* A command with no sub-command fetches and prints the list: lines 493-495,
\* 515-516, 539, 551, 593.
StartList ==
    /\ pc = "start"
    /\ \E c \in ListCommands :
        /\ command' = c[1]
        /\ sub' = c[2]
        /\ events' = <<FetchReq(c[1]), Resp("ok")>>
    /\ fetched' = Mirror(remote)
    /\ tasks' = Mirror(remote)
    /\ printed' = <<Line("list", "")>>
    /\ pc' = "done"
    /\ UNCHANGED <<moveto, malformed, tids, real_ids, idx, remote, err>>
    /\ UNCHANGED notCmdVars

\* habits up/down, dailies done/undo, todos done/delete: the fetch and the
\* call of get_task_ids (lines 472-474, 484, 520-522, 531, 555-558, 575).
StartBulk ==
    /\ pc = "start"
    /\ \E c \in BulkCommands, p \in BulkParses :
        /\ command' = c[1]
        /\ sub' = c[2]
        /\ events' = <<FetchReq(c[1]), Resp("ok")>>
        /\ malformed' = p.malformed
        /\ tids' = p.ret.ids
        /\ pc' = IF p.ret.err THEN "crashed" ELSE "loop"
        /\ err' = IF p.ret.err THEN "ValueError" ELSE ""
    /\ fetched' = Mirror(remote)
    /\ tasks' = Mirror(remote)
    /\ UNCHANGED <<moveto, real_ids, idx, remote, printed>>
    /\ UNCHANGED notCmdVars

\* hb/dl/todos top, tob and to: the fetch, then move's lines 330-332.
StartMove ==
    /\ pc = "start"
    /\ \E c \in MoveCommands :
        \E mv \in MoveTos(c[2]), p \in IF c[2] = "to" THEN ToParses ELSE MoveParses :
            LET r == resolve(Mirror(remote), p.ret.ids)
            IN  /\ command' = c[1]
                /\ sub' = c[2]
                /\ moveto' = mv
                /\ events' = <<FetchReq(c[1]), Resp("ok")>>
                /\ malformed' = p.malformed
                /\ tids' = p.ret.ids
                /\ real_ids' = IF p.ret.err THEN <<>> ELSE r.items
                /\ pc' = IF p.ret.err \/ r.err THEN "crashed" ELSE "loop"
                /\ err' = IF p.ret.err
                          THEN "ValueError"
                          ELSE IF r.err THEN "IndexError" ELSE ""
    /\ fetched' = Mirror(remote)
    /\ tasks' = Mirror(remote)
    /\ UNCHANGED <<idx, remote, printed>>
    /\ UNCHANGED notCmdVars

\* One pass of a bulk loop up to its request: lines 476-478, 486-488,
\* 524-525, 533-534, 560-561, 579-580.  tasks[tid] may raise IndexError.
BulkCall ==
    /\ pc = "loop"
    /\ ~IsMove
    /\ idx <= Len(tids)
    /\ LET tid == loop_item(tids, idx)
       IN  IF index_ok(tasks, tid)
           THEN /\ events' = Append(events,
                                    request_for(sub, getitem(tasks, tid).id, moveto))
                /\ pc' = "inflight"
                /\ err' = err
           ELSE /\ events' = events
                /\ pc' = "crashed"
                /\ err' = "IndexError"
    /\ UNCHANGED <<command, sub, moveto, malformed, fetched, tasks, tids,
                   real_ids, idx, remote, printed>>
    /\ UNCHANGED notCmdVars

\* One pass of move's loop up to its request: lines 333-336.  The line
\* 'moving ...' is printed before the request is sent.
MoveCall ==
    /\ pc = "loop"
    /\ IsMove
    /\ idx <= Len(real_ids)
    /\ printed' = Append(printed, Line("moving", loop_item(real_ids, idx).id))
    /\ events' = Append(events,
                        request_for(sub, loop_item(real_ids, idx).id, moveto))
    /\ pc' = "inflight"
    /\ UNCHANGED <<command, sub, moveto, malformed, fetched, tasks, tids,
                   real_ids, idx, remote, err>>
    /\ UNCHANGED notCmdVars

\* The request is served and returns; the bulk loops then print their line
\* (lines 479, 489, 526, 535, 562, 581) and those of habits and dailies update
\* the local list (lines 481, 491, 528, 537).
CallReturns ==
    /\ pc = "inflight"
    /\ remote' = remote_apply(remote, command, events[Len(events)])
    /\ events' = Append(events, Resp("ok"))
    /\ tasks' = IF IsMove \/ command = "todos"
                THEN tasks
                ELSE local_update(tasks, sub, loop_item(tids, idx))
    /\ printed' = IF IsMove
                  THEN printed
                  ELSE Append(printed,
                              Line(printed_word(sub),
                                   getitem(tasks, loop_item(tids, idx)).id))
    /\ pc' = "sleep"
    /\ UNCHANGED <<command, sub, moveto, malformed, fetched, tids, real_ids,
                   idx, err>>
    /\ UNCHANGED notCmdVars

\* The request raises: the exception leaves the loop and ends the run.
CallFails_retries_once ==
    /\ pc = "inflight"
    /\ events' = Append(events, Resp("error"))
    /\ pc' = IF Resp("error") \in {events[k] : k \in 1..Len(events)}
             THEN "crashed" ELSE "loop"
    /\ err' = IF pc' = "crashed" THEN "RemoteError" ELSE err
    /\ UNCHANGED <<command, sub, moveto, malformed, fetched, tasks, tids,
                   real_ids, idx, remote, printed>>
    /\ UNCHANGED notCmdVars

CallFails ==
    /\ pc = "inflight"
    /\ events' = Append(events, Resp("error"))
    /\ pc' = "crashed"
    /\ err' = "RemoteError"
    /\ UNCHANGED <<command, sub, moveto, malformed, fetched, tasks, tids,
                   real_ids, idx, remote, printed>>
    /\ UNCHANGED notCmdVars

\* sleep(HABITICA_REQUEST_WAIT_TIME), then the next pass.
Sleep ==
    /\ pc = "sleep"
    /\ events' = after_call(events)
    /\ idx' = idx + 1
    /\ pc' = "loop"
    /\ UNCHANGED <<command, sub, moveto, malformed, fetched, tasks, tids,
                   real_ids, remote, err, printed>>
    /\ UNCHANGED notCmdVars

\* The loop is over: todos done and delete rebuild the local list (lines
\* 565, 584), then the list is printed.
Finish ==
    /\ pc = "loop"
    /\ idx > (IF IsMove THEN Len(real_ids) ELSE Len(tids))
    /\ IF command = "todos" /\ sub \in {"done", "delete"}
       THEN LET u == updated_task_list(tasks, tids)
            IN  /\ tasks' = u.list
                /\ pc' = IF u.err THEN "crashed" ELSE "done"
                /\ err' = IF u.err THEN "IndexError" ELSE ""
                /\ printed' = IF u.err THEN printed
                                       ELSE Append(printed, Line("list", ""))
       ELSE /\ tasks' = tasks
            /\ pc' = "done"
            /\ err' = err
            /\ printed' = IF IsMove THEN printed
                                    ELSE Append(printed, Line("list", ""))
    /\ UNCHANGED <<command, sub, moveto, malformed, fetched, tids, real_ids,
                   idx, remote, events>>
    /\ UNCHANGED notCmdVars

CmdNext ==
    \/ FetchFails
    \/ StartList
    \/ StartBulk
    \/ StartMove
    \/ BulkCall
    \/ MoveCall
    \/ CallReturns
    \/ CallFails
    \/ Sleep
    \/ Finish

----------------------------------------------------------------------------
\* QuestSpec: runs of the status command, src/core.py 90-118 and 378-468.

\* Bound: content fetches counted for one unchanged live quest.
MaxFetches == 2

DEFAULT_QUEST == "Not currently on a quest"

\* An option the file does not hold.
Unset == "(unset)"

EmptyFile ==
    [quest_key |-> Unset, quest_type |-> Unset, quest_max |-> Unset,
     quest_title |-> Unset]

\* hbt.content()['quests']: qA is a collection quest, qB a boss quest, qC has
\* neither shape.
QuestKeys == {"qA", "qB", "qC"}

Content ==
    [k \in QuestKeys |->
        CASE k = "qA" -> [text |-> "Title A", collect |-> <<50>>, boss |-> <<>>]
          [] k = "qB" -> [text |-> "Title B", collect |-> <<>>, boss |-> <<300>>]
          [] k = "qC" -> [text |-> "Title C", collect |-> <<>>, boss |-> <<>>]]

\* quest_data['progress'] of the live quest.
Progress == [collect |-> 7, hp |-> 120]

NoParty == [party |-> FALSE, active |-> FALSE, key |-> ""]

LiveStates ==
    {NoParty, [party |-> TRUE, active |-> FALSE, key |-> ""]}
        \cup {[party |-> TRUE, active |-> TRUE, key |-> k] : k \in QuestKeys}

\* The cache files a first run may find: none, or the record of a
\* classifiable quest as an earlier release wrote it.
InitialCacheFiles ==
    {EmptyFile,
     [quest_key |-> "qA", quest_type |-> "collect", quest_max |-> "50",
      quest_title |-> "Title A"],
     [quest_key |-> "qB", quest_type |-> "hp", quest_max |-> "300",
      quest_title |-> "Title B"]}

NoLocals == [qt |-> Unset, quest_max |-> Unset, quest_title |-> Unset]

\* load_cache, lines 90-102: the options of the file, quest_key defaulting
\* to ''.
load_cache(file) ==
    [file EXCEPT !.quest_key = IF file.quest_key = Unset THEN "" ELSE file.quest_key]

\* update_quest_cache, lines 105-118.  Line 113 opens the file 'wb', which
\* empties it; line 114 then raises TypeError, since a ConfigParser writes
\* str: the file stays empty and lines 116-118 are not reached.
update_quest_cache_key_only(file, kwargs) ==
    [file |-> [file EXCEPT !.quest_key = kwargs.quest_key], raised |-> FALSE]

update_quest_cache(file, kwargs) == [file |-> EmptyFile, raised |-> TRUE]

QuestIdle ==
    /\ q_pc = "off"
    /\ cache_file = EmptyFile
    /\ live = NoParty
    /\ cache = EmptyFile
    /\ quest_key = ""
    /\ found = NoLocals
    /\ quest = <<>>
    /\ q_err = ""
    /\ content_fetches = 0
    /\ written = EmptyFile

QuestInit ==
    /\ q_pc = "idle"
    /\ cache_file \in InitialCacheFiles
    /\ live \in LiveStates
    /\ cache = EmptyFile
    /\ quest_key = ""
    /\ found = NoLocals
    /\ quest = <<>>
    /\ q_err = ""
    /\ content_fetches = 0
    /\ written = EmptyFile

\* Between runs the party or its quest changes.
LiveChanges ==
    /\ q_pc = "idle"
    /\ \E l \in LiveStates \ {live} : live' = l
    /\ content_fetches' = 0
    /\ UNCHANGED <<q_pc, cache_file, cache, quest_key, found, quest, q_err,
                   written>>
    /\ UNCHANGED notQuestVars

\* Lines 355 and 381-388: the cache is loaded, the user and the party fetched.
StatusStart ==
    /\ q_pc = "idle"
    /\ cache' = load_cache(cache_file)
    /\ quest' = <<DEFAULT_QUEST>>
    /\ q_pc' = IF live.party THEN "party" ELSE "print"
    /\ UNCHANGED <<cache_file, live, quest_key, found, q_err, content_fetches,
                   written>>
    /\ UNCHANGED notQuestVars

\* Lines 396-400: the party's quest is fetched and its key compared with the
\* cached one.
StatusQuest_always_stale ==
    /\ q_pc = "party"
    /\ IF live.active
       THEN /\ quest_key' = live.key
            /\ q_pc' = "content"
       ELSE /\ quest_key' = quest_key
            /\ q_pc' = "print"
    /\ UNCHANGED <<cache_file, live, cache, found, quest, q_err, content_fetches,
                   written>>
    /\ UNCHANGED notQuestVars

StatusQuest ==
    /\ q_pc = "party"
    /\ IF live.active
       THEN /\ quest_key' = live.key
            /\ q_pc' = IF cache.quest_key # live.key THEN "content" ELSE "progress"
       ELSE /\ quest_key' = quest_key
            /\ q_pc' = "print"
    /\ UNCHANGED <<cache_file, live, cache, found, quest, q_err, content_fetches,
                   written>>
    /\ UNCHANGED notQuestVars

\* Lines 403-423: the content is fetched and the quest classified.  Line 415
\* subscripts dict.values(), which raises TypeError.
StatusContent ==
    /\ q_pc = "content"
    /\ content_fetches < MaxFetches
    /\ content_fetches' = content_fetches + 1
    /\ LET c == Content[quest_key]
       IN  IF c.collect # <<>>
           THEN /\ found' = [qt |-> "collect", quest_max |-> "-1",
                             quest_title |-> c.text]
                /\ q_pc' = "crashed"
                /\ q_err' = "TypeError"
           ELSE IF c.boss # <<>>
                THEN /\ found' = [qt |-> "hp", quest_max |-> ToString(c.boss[1]),
                                  quest_title |-> c.text]
                     /\ q_pc' = "update"
                     /\ q_err' = q_err
                ELSE /\ found' = [qt |-> Unset, quest_max |-> "-1",
                                  quest_title |-> c.text]
                     /\ q_pc' = "update"
                     /\ q_err' = q_err
    /\ UNCHANGED <<cache_file, live, cache, quest_key, quest, written>>
    /\ UNCHANGED notQuestVars

\* Lines 426-430: str(qt) raises NameError when neither branch bound qt;
\* otherwise update_quest_cache is called.
StatusUpdate_writes_unclassified ==
    /\ q_pc = "update"
    /\ LET kwargs == [quest_key |-> quest_key,
                      quest_type |-> IF found.qt = Unset THEN "" ELSE found.qt,
                      quest_max |-> found.quest_max,
                      quest_title |-> found.quest_title]
           u == update_quest_cache(cache_file, kwargs)
       IN  /\ cache_file' = u.file
           /\ written' = kwargs
           /\ cache' = IF u.raised THEN cache ELSE load_cache(u.file)
           /\ q_pc' = IF u.raised THEN "crashed" ELSE "progress"
           /\ q_err' = IF u.raised THEN "TypeError" ELSE q_err
    /\ UNCHANGED <<live, quest_key, found, quest, content_fetches>>
    /\ UNCHANGED notQuestVars

StatusUpdate ==
    /\ q_pc = "update"
    /\ IF found.qt = Unset
       THEN /\ cache_file' = cache_file
            /\ cache' = cache
            /\ q_pc' = "crashed"
            /\ q_err' = "NameError"
            /\ written' = written
       ELSE LET kwargs == [quest_key |-> quest_key, quest_type |-> found.qt,
                           quest_max |-> found.quest_max,
                           quest_title |-> found.quest_title]
                u == update_quest_cache(cache_file, kwargs)
            IN  /\ cache_file' = u.file
                /\ written' = kwargs
                /\ cache' = IF u.raised THEN cache ELSE load_cache(u.file)
                /\ q_pc' = IF u.raised THEN "crashed" ELSE "progress"
                /\ q_err' = IF u.raised THEN "TypeError" ELSE q_err
    /\ UNCHANGED <<live, quest_key, found, quest, content_fetches>>
    /\ UNCHANGED notQuestVars

\* Lines 433-443: the progress is read by the cached quest_type.  Line 436
\* subscripts dict.values(), which raises TypeError.
StatusProgress ==
    /\ q_pc = "progress"
    /\ IF Unset \in {cache.quest_type, cache.quest_max, cache.quest_title}
       THEN /\ quest' = quest
            /\ q_pc' = "crashed"
            /\ q_err' = "NoOptionError"
       ELSE IF cache.quest_type = "collect"
            THEN /\ quest' = quest
                 /\ q_pc' = "crashed"
                 /\ q_err' = "TypeError"
            ELSE /\ quest' = <<ToString(Progress.hp), cache.quest_max,
                               cache.quest_title>>
                 /\ q_pc' = "print"
                 /\ q_err' = q_err
    /\ UNCHANGED <<cache_file, live, cache, quest_key, found, content_fetches,
                   written>>
    /\ UNCHANGED notQuestVars

\* Lines 446-468: the report is printed.
StatusPrint ==
    /\ q_pc = "print"
    /\ q_pc' = "done"
    /\ UNCHANGED <<cache_file, live, cache, quest_key, found, quest, q_err,
                   content_fetches, written>>
    /\ UNCHANGED notQuestVars

\* A remote call of the run raises: lines 381, 385, 396, 403.
StatusRemoteFails ==
    /\ q_pc \in {"idle", "party", "content"}
    /\ q_pc' = "crashed"
    /\ q_err' = "RemoteError"
    /\ UNCHANGED <<cache_file, live, cache, quest_key, found, quest,
                   content_fetches, written>>
    /\ UNCHANGED notQuestVars

\* The process ends; only the file outlives it.
StatusExit ==
    /\ q_pc \in {"done", "crashed"}
    /\ q_pc' = "idle"
    /\ cache' = EmptyFile
    /\ quest_key' = ""
    /\ found' = NoLocals
    /\ quest' = <<>>
    /\ q_err' = ""
    /\ UNCHANGED <<cache_file, live, content_fetches, written>>
    /\ UNCHANGED notQuestVars

QuestNext ==
    \/ LiveChanges
    \/ StatusStart
    \/ StatusQuest
    \/ StatusContent
    \/ StatusUpdate
    \/ StatusProgress
    \/ StatusPrint
    \/ StatusRemoteFails
    \/ StatusExit

----------------------------------------------------------------------------
\* ScoreSpec: qualitative_task_score_from_value applied to a pair of values
\* drawn from the bounded range, src/core.py 192-196.

\* Bound: the values scored lie in -MaxValue..MaxValue.
MaxValue == 22

scores == <<"*", "**", "***", "****", "*****", "******", "*******">>

breakpoints == <<-20, -10, -1, 1, 5, 10>>

\* bisect.bisect (bisect_right) on a[lo+1..hi] of the 1-based sequence a:
\* while lo < hi: mid = (lo+hi)//2; if x < a[mid]: hi = mid else: lo = mid+1.
RECURSIVE bisect_between(_, _, _, _)
bisect_between(a, x, lo, hi) ==
    IF lo < hi
    THEN LET mid == (lo + hi) \div 2
         IN  IF x < a[mid + 1]
             THEN bisect_between(a, x, lo, mid)
             ELSE bisect_between(a, x, mid + 1, hi)
    ELSE lo

bisect_left(a, x) == Cardinality({k \in 1..Len(a) : a[k] < x})

bisect(a, x) == bisect_between(a, x, 0, Len(a))

\* Line 196: scores[bisect(breakpoints, value)], the subscript 0-based.
score_from_value_bisect_left(value) ==
    scores[bisect_left(breakpoints, value) + 1]

qualitative_task_score_from_value(value) ==
    scores[bisect(breakpoints, value) + 1]

ScoreIdle ==
    /\ s_pc = "off"
    /\ s_x = 0
    /\ s_y = 0
    /\ s_rx = ""
    /\ s_ry = ""

ScoreInit ==
    /\ s_pc = "call"
    /\ s_x \in -MaxValue..MaxValue
    /\ s_y \in -MaxValue..MaxValue
    /\ s_rx = ""
    /\ s_ry = ""

ScoreCall ==
    /\ s_pc = "call"
    /\ s_rx' = qualitative_task_score_from_value(s_x)
    /\ s_ry' = qualitative_task_score_from_value(s_y)
    /\ s_pc' = "return"
    /\ UNCHANGED <<s_x, s_y>>
    /\ UNCHANGED notScoreVars

ScoreNext == ScoreCall

----------------------------------------------------------------------------
\* The specifications.

ParserSpecInit == ParserInit /\ CmdIdle /\ QuestIdle /\ ScoreIdle

ParserSpec == ParserSpecInit /\ [][ParserNext]_vars

Init == CmdInit /\ ParserIdle /\ QuestIdle /\ ScoreIdle

Next == CmdNext

Spec == Init /\ [][Next]_vars

QuestSpecInit == QuestInit /\ ParserIdle /\ CmdIdle /\ ScoreIdle

QuestSpec == QuestSpecInit /\ [][QuestNext]_vars

ScoreSpecInit == ScoreInit /\ ParserIdle /\ CmdIdle /\ QuestIdle

ScoreSpec == ScoreSpecInit /\ [][ScoreNext]_vars

----------------------------------------------------------------------------
\* Claims about get_task_ids (checked under ParserSpec).

\* C1: in dedup_sort mode a well-formed expression returns a strictly
\* ascending, duplicate-free sequence holding exactly the values v-1 it names.
C1_DedupSortAscending ==
    (p_pc = "return" /\ p_sort /\ WellFormed(p_tids)) =>
        /\ ~p_ret.err
        /\ StrictlyAscending(p_ret.ids)
        /\ Chars(p_ret.ids) = Chars(Expected(p_tids, 1))

\* C2: in preserve_order mode a well-formed expression returns the
\* concatenation of its pieces' expansions, in token order and then comma-piece
\* order, duplicates kept.
C2_PreserveOrderConcat ==
    (p_pc = "return" /\ ~p_sort /\ WellFormed(p_tids)) =>
        /\ ~p_ret.err
        /\ p_ret.ids = Expected(p_tids, 1)

\* C2 witness: tokens '1-2' and '2' have been parsed to [0,1,1], a range, a
\* second token and a duplicate.
C2_Witness ==
    /\ p_pc = "return"
    /\ ~p_sort
    /\ p_tids = <<(<<"1", "-", "2">>), (<<"2">>)>>
    /\ p_ret = Gathered(<<0, 1, 1>>)

\* C3: a call whose tokens hold a non-numeric literal, a reversed range, a
\* range with more than one hyphen or an empty piece ends in an error.
C3_MalformedRaises ==
    (p_pc = "return" /\ Malformed(p_tids)) => p_ret.err

----------------------------------------------------------------------------
\* Claims about the command runs (checked under Spec).

IsReq(e) == e.ev = "req"

IsMutating(e) == e.ev = "req" /\ e.method # "get"

\* The mutating requests the run has issued so far, in order.
Mutating == SelectSeq(events, IsMutating)

\* A parsed index names a task of the fetched list.
InRange(tid) == 0 <= tid /\ tid < Len(fetched)

AllInRange == \A k \in 1..Len(tids) : InRange(tids[k])

IsPrefix(a, b) == Len(a) <= Len(b) /\ \A k \in 1..Len(a) : a[k] = b[k]

PosIn(list, id) == CHOOSE k \in 1..Len(list) : list[k] = id

\* C4: an index outside 0..len-1 (-1 from the token '0' included) is never
\* resolved to a task for which a request is sent: the request in flight in a
\* bulk loop comes from an in-range index, and move resolves only in-range
\* indices.
C4_OutOfRangeNeverSelects ==
    /\ (pc = "inflight" /\ ~IsMove) => InRange(tids[idx])
    /\ (IsMove /\ Len(real_ids) > 0) => AllInRange

\* C5: when the expression typed is malformed, the command has failed before
\* any mutating request: none is ever issued in the run.
C5_MalformedNoRemoteCall ==
    malformed => Mutating = <<>>

\* C6: a top/tob/to command one of whose indices names no task of the fetched
\* list issues no move request at all.
C6_NoPartialMove ==
    (IsMove /\ ~AllInRange) => Mutating = <<>>

\* C7: a reorder command whose expression resolves to tasks t1..tn issues one
\* move request per ti, in that order, each with the command's destination;
\* every request is answered before the next event; a completed command has
\* issued exactly the n requests.
Destination == IF sub = "top" THEN "0" ELSE IF sub = "tob" THEN "-1" ELSE moveto

ExpectedMoves ==
    [k \in 1..Len(tids) |->
        Req("post", fetched[tids[k] + 1].id, <<"_moveto", Destination>>)]

C7_OneMovePerTaskInOrder ==
    (IsMove /\ err # "ValueError" /\ AllInRange) =>
        /\ IsPrefix(Mutating, ExpectedMoves)
        /\ pc = "done" => Mutating = ExpectedMoves
        /\ \A a \in 1..(Len(events) - 1) :
               IsReq(events[a]) => events[a + 1].ev = "resp"

\* C7 witness: 'top 1 3' on [A,B,C] has completed after move(A, 0) and then
\* move(C, 0).
C7_Witness ==
    /\ pc = "done"
    /\ sub = "top"
    /\ tids = <<0, 2>>
    /\ Len(fetched) = 3
    /\ Mutating = <<Req("post", "A", <<"_moveto", "0">>),
                    Req("post", "C", <<"_moveto", "0">>)>>

\* C8 as stated: after 'top 1 3' on a list of at least 3 tasks the task
\* fetched at position 1 is above the task fetched at position 3.
C8_FirstAboveThird ==
    (pc = "done" /\ sub = "top" /\ tids = <<0, 2>> /\ Len(fetched) >= 3) =>
        PosIn(remote, fetched[1].id) < PosIn(remote, fetched[3].id)

\* C8 as amended: after 'top 1 3' the task moved last is on top: the task
\* fetched at position 3 is first and the one fetched at position 1 second.
C8_LastMovedOnTop ==
    (pc = "done" /\ sub = "top" /\ tids = <<0, 2>> /\ Len(fetched) >= 3) =>
        /\ remote[1] = fetched[3].id
        /\ remote[2] = fetched[1].id

\* C8 witness: 'top 1 3' on [A,B,C] has completed and left [C,A,B].
C8_Witness ==
    /\ pc = "done"
    /\ sub = "top"
    /\ tids = <<0, 2>>
    /\ remote = <<"C", "A", "B">>

\* C9: between any two mutating requests of a run lies a sleep of
\* HABITICA_REQUEST_WAIT_TIME, and a completed run has slept after its last
\* request too.
C9_DelayAfterEveryMutatingCall ==
    /\ \A a, b \in 1..Len(events) :
           (a < b /\ IsMutating(events[a]) /\ IsMutating(events[b])) =>
               \E c \in (a + 1)..(b - 1) :
                   /\ events[c].ev = "sleep"
                   /\ events[c].wait = HABITICA_REQUEST_WAIT_TIME
    /\ (pc = "done" /\ Mutating # <<>>) =>
           /\ events[Len(events)].ev = "sleep"
           /\ events[Len(events)].wait = HABITICA_REQUEST_WAIT_TIME

\* C9 witness: 'todos delete' has completed after two delete requests.
C9_Witness ==
    /\ pc = "done"
    /\ command = "todos"
    /\ sub = "delete"
    /\ Len(Mutating) = 2

\* The task the k-th pass of the run's loop is for.
Target(k) ==
    IF IsMove THEN real_ids[k].id ELSE getitem(fetched, tids[k]).id

\* The remote list after the first k mutating requests have been served.
RECURSIVE Served(_)
Served(k) ==
    IF k = 0
    THEN [j \in 1..Len(fetched) |-> fetched[j].id]
    ELSE remote_apply(Served(k - 1), command, Mutating[k])

\* C17: when the remote call of a pass over in-range indices fails, the effects of the earlier
\* passes stand, every request sent is one of the expression's own (none
\* compensates), none is sent for the later indices, and the last line the
\* run wrote names the task of the failing pass.
C17_PartialNotRolledBack ==
    (pc = "crashed" /\ err = "RemoteError" /\ Mutating # <<>> /\ AllInRange) =>
        /\ Len(Mutating) = idx
        /\ \A k \in 1..idx : Mutating[k] = request_for(sub, Target(k), moveto)
        /\ remote = Served(idx - 1)
        /\ printed # <<>>
        /\ printed[Len(printed)].id = Target(idx)

\* C18: the k-th mutating request of a run is for the k-th index of the
\* resolved expression, so no pair is sent more often than it occurs; a
\* failed call is the last event of the run, which ends crashed.
C18_NoRetry ==
    /\ Len(Mutating) <= (IF IsMove THEN Len(real_ids) ELSE Len(tids))
    /\ \A k \in 1..Len(Mutating) : Mutating[k].id = Target(k)
    /\ \A a \in 1..Len(events) :
           events[a] = Resp("error") =>
               (a = Len(events) /\ pc = "crashed" /\ err = "RemoteError")

\* C18 witness: the second call of a three-index run has failed after the
\* first was served.
C18_Witness ==
    /\ pc = "crashed"
    /\ err = "RemoteError"
    /\ tids = <<0, 1, 2>>
    /\ Len(Mutating) = 2
    /\ events[Len(events)] = Resp("error")

\* C21: every mutating request of a bulk or reorder run is for the task that
\* occupied the position its index gives in the list as fetched, whatever the
\* earlier requests did to the remote list.
C21_IndexStability ==
    \A k \in 1..Len(Mutating) :
        /\ InRange(tids[k])
        /\ Mutating[k].id = fetched[tids[k] + 1].id

\* The tasks of the fetched list at positions whose 0-based index is not in S,
\* in their fetched order.
RECURSIVE Kept(_, _)
Kept(S, n) ==
    IF n = 0
    THEN <<>>
    ELSE IF (n - 1) \in S
         THEN Kept(S, n - 1)
         ELSE Append(Kept(S, n - 1), fetched[n])

\* C22: a completed 'todos done' or 'todos delete' over in-range indices
\* leaves the local list equal to the fetched list without the tasks at those
\* indices, the others in their fetched order; until its loop is over the
\* local list is the fetched one.
C22_MirrorAfterDoneDelete ==
    (command = "todos" /\ sub \in {"done", "delete"} /\ AllInRange) =>
        /\ pc = "done" => tasks = Kept(Chars(tids), Len(fetched))
        /\ pc \in {"loop", "inflight", "sleep"} => tasks = fetched
        /\ pc = "crashed" /\ err = "RemoteError" => tasks = fetched

\* C22 witness: 'todos delete 1,3' on [A,B,C] has completed and left [B].
C22_Witness ==
    /\ pc = "done"
    /\ command = "todos"
    /\ sub = "delete"
    /\ Chars(tids) = {0, 2}
    /\ Len(fetched) = 3
    /\ tasks = <<fetched[2]>>

----------------------------------------------------------------------------
\* Claims about the status command (checked under QuestSpec).

\* C10: while the live quest stays unchanged, the content definition is
\* fetched by at most the first status query.
C10_ContentFetchedAtMostOnce ==
    content_fetches <= 1

\* What the content defines for a quest, told apart from the code's own
\* classification.
Classifiable(k) == Content[k].collect # <<>> \/ Content[k].boss # <<>>

\* The cache record the definition of quest k calls for.
RecordOf(k) ==
    [quest_key |-> k,
     quest_type |-> IF Content[k].collect # <<>> THEN "collect" ELSE "hp",
     quest_max |-> IF Content[k].collect # <<>>
                   THEN ToString(Content[k].collect[1])
                   ELSE ToString(Content[k].boss[1]),
     quest_title |-> Content[k].text]

\* The run found the cached key stale, fetched the content and has ended.
StaleRunEnded == q_pc \in {"done", "crashed"} /\ found.quest_title # Unset

\* C11: a status query that found a quest of collect or boss shape under a
\* key other than the cached one ends with the cache file holding the live
\* key, the type of the shape, and the max and title of the definition.
C11_StaleQueryCachesLiveQuest ==
    (StaleRunEnded /\ Classifiable(quest_key)) =>
        cache_file = RecordOf(quest_key)

\* C12: once update_quest_cache has been called with a record, load_cache
\* returns the same four values, and a query against the same live key does
\* not take the stale path.
C12_CacheRoundTrip ==
    written # EmptyFile =>
        /\ load_cache(cache_file) = written
        /\ (q_pc = "content" /\ quest_key = written.quest_key) =>
               cache.quest_key = quest_key

\* C13: when the definition of the live quest has neither a collect nor a
\* boss target, the status query does not crash.
C13_UnknownTypeStillReports ==
    (found.quest_title # Unset /\ ~Classifiable(quest_key)) => q_pc # "crashed"

C19_CacheChangesOnlyOnKeyChange ==
    /\ [][cache_file' # cache_file =>
             (live.party /\ live.active /\ cache.quest_key # live.key)]_vars
    /\ [](q_pc = "content" => cache.quest_key # quest_key)

\* C19 witness: a query against the cached key qB has ended without a content
\* fetch, the record still in the file.
C19_Witness ==
    /\ q_pc = "done"
    /\ live.active
    /\ live.key = "qB"
    /\ cache_file = RecordOf("qB")
    /\ content_fetches = 0

\* C20: a query against the cached key reports the progress the cached
\* quest_type selects (the collection value for 'collect', the hit points
\* for 'hp') with the cached max and title.
C20_ProgressByCachedType ==
    (q_pc \in {"print", "done", "crashed"} /\ live.active
        /\ q_err # "RemoteError" /\ quest_key = cache.quest_key) =>
        quest = <<ToString(IF cache.quest_type = "collect"
                           THEN Progress.collect ELSE Progress.hp),
                  cache.quest_max, cache.quest_title>>

----------------------------------------------------------------------------
\* Claims about the scoring function (checked under ScoreSpec).

\* The 1-based tier of a score, the weakest the 1st.
Tier(s) == CHOOSE k \in 1..Len(scores) : scores[k] = s

\* C15: the score is one of the seven; a smaller value never gets a higher
\* tier; a value equal to the k-th breakpoint gets tier k+1, the tier of the
\* value just above it and a higher tier than the value just below it.
C15_ScoreMonotonicInsertionPoint ==
    s_pc = "return" =>
        /\ \E k \in 1..7 : scores[k] = s_rx
        /\ s_x < s_y => Tier(s_rx) <= Tier(s_ry)
        /\ \A k \in 1..6 :
               /\ s_x = breakpoints[k] => Tier(s_rx) = k + 1
               /\ (s_x = breakpoints[k] /\ s_y = s_x + 1) => Tier(s_rx) = Tier(s_ry)
               /\ (s_x = breakpoints[k] /\ s_y = s_x - 1) => Tier(s_ry) < Tier(s_rx)

\* C15 witness: 5 and 6 have been scored, both '******'.
C15_Witness ==
    /\ s_pc = "return"
    /\ s_x = 5
    /\ s_y = 6
    /\ s_rx = "******"
    /\ s_ry = "******"

\* C16 as stated: the value 1 gets the 4th tier.
C16_OneIsFourthTier ==
    (s_pc = "return" /\ s_x = 1) => Tier(s_rx) = 4

\* C16 as amended: the value 1 gets the 5th tier, '*****'.
C16_OneIsFifthTier ==
    (s_pc = "return" /\ s_x = 1) => Tier(s_rx) = 5

\* C16 witness: 1 has been scored '*****'.
C16_Witness ==
    /\ s_pc = "return"
    /\ s_x = 1
    /\ s_rx = "*****"

----------------------------------------------------------------------------
\* More claims about the status command (checked under QuestSpec).

\* C23: a query that cannot classify the live quest leaves the cache file as
\* it was; the file never holds the key of an unclassifiable quest; a query
\* against such a quest never takes the cached path, so it fetches the content
\* again.
C23_UnclassifiedNeverCached ==
    /\ [][(found.quest_title # Unset /\ ~Classifiable(quest_key)) =>
             cache_file' = cache_file]_vars
    /\ [](cache_file.quest_key \in QuestKeys =>
             Classifiable(cache_file.quest_key))
    /\ [](q_pc = "progress" => Classifiable(quest_key))

\* C23 witness: the second query against the unclassifiable qC has fetched
\* the content again and ended in NameError, the record of qA still in the
\* file.
C23_Witness ==
    /\ q_pc = "crashed"
    /\ q_err = "NameError"
    /\ quest_key = "qC"
    /\ content_fetches = 2
    /\ cache_file = RecordOf("qA")

====
